---- MODULE Spec2Model ----
(***************************************************************************)
(* nautobot-plugin-chatops-grafana: the chat command handler of worker.py  *)
(* and the GrafanaHandler of grafana.py, as a state machine.               *)
(*                                                                         *)
(* The state is what outlives one invocation in the worker process: the    *)
(* handler's settings (handler.config), handler.current_subcommand and the *)
(* two mutable slots of every variable of the loaded panels document       *)
(* (variable["value"] and the variable["filter"] dict), plus a record of   *)
(* what the last invocation did (its dispatcher calls, its render fetch,   *)
(* its outcome).  One step is one whole invocation of the job `grafana`.   *)
(*                                                                         *)
(* Two more specifications use the same operators: SpecParse applies the   *)
(* argument parser to token sequences (parse holds the last call), and     *)
(* SpecJobs runs two jobs on the one handler statement by statement (jobs  *)
(* holds their positions and locals).                                      *)
(***************************************************************************)
EXTENDS Integers, Sequences, FiniteSets, TLC

VARIABLES config, current_subcommand, var_value, var_filter, inv, invocations,
          parse, jobs

vars == <<config, current_subcommand, var_value, var_filter, inv, invocations, parse, jobs>>

-----------------------------------------------------------------------------
(* Bounds of the model.                                                    *)

\* positional words a user types in one chat command
MaxArgs == 2
\* flag tokens (width=.., theme=.., ...) a user types in one chat command
MaxFlags == 2
\* invocations the worker process serves in one run
MaxInvocations == 3
\* tokens of one call of the argument parser in SpecParse
MaxTokens == 3

-----------------------------------------------------------------------------
(* Values.  Python values of different types are kept apart by a tag.      *)

StrV(s) == [t |-> "str", s |-> s]
IntV(i) == [t |-> "int", i |-> i]
TdV(d) == [t |-> "td", d |-> d]
NoneV == [t |-> "none"]

\* a datetime.timedelta, or a datetime as the time since the epoch: whole
\* seconds and half milliseconds (0..1999) on top of them
Td(s, h) == [s |-> s, h |-> h]

ZeroTd == Td(0, 0)

\* Python truthiness of a value
Truthy(v) ==
    CASE v.t = "str" -> v.s # ""
      [] v.t = "int" -> v.i # 0
      [] v.t = "td" -> v.d # ZeroTd
      [] OTHER -> FALSE

\* an ordered dict as a sequence of [k, v] entries
Keys(d) == {d[i].k : i \in 1..Len(d)}

HasKey(d, k) == k \in Keys(d)

Get(d, k) == d[CHOOSE i \in 1..Len(d) : d[i].k = k].v

\* d[k] = v: replaces in place, or appends a new key at the end
Put(d, k, v) ==
    IF HasKey(d, k)
    THEN [i \in 1..Len(d) |-> IF d[i].k = k THEN [k |-> k, v |-> v] ELSE d[i]]
    ELSE Append(d, [k |-> k, v |-> v])

-----------------------------------------------------------------------------
(* The panels document (handler.panels) as loaded, and the inventory.      *)

default_params == <<"width", "height", "theme", "timespan", "timezone">>

DefaultParamSet == {default_params[i] : i \in 1..Len(default_params)}

\* one dashboard with two panels; `has_filter`/`has_value` say whether the
\* key is present in the document, `query = ""` that the key is absent
NoFilter == << >>

VarSite ==
    [name |-> "site", friendly_name |-> "Site", query |-> "Site", modelattr |-> "name",
     includeincmd |-> TRUE, includeinurl |-> TRUE, response |-> "",
     has_filter |-> FALSE, filter |-> NoFilter,
     has_value |-> TRUE, value |-> "{{ site.name }}"]

VarDevice ==
    [name |-> "device", friendly_name |-> "Device", query |-> "Device", modelattr |-> "name",
     includeincmd |-> TRUE, includeinurl |-> TRUE, response |-> "",
     has_filter |-> TRUE, filter |-> <<[k |-> "site", v |-> "{{ site.name }}"]>>,
     has_value |-> FALSE, value |-> ""]

VarMetric ==
    [name |-> "metric", friendly_name |-> "", query |-> "", modelattr |-> "",
     includeincmd |-> TRUE, includeinurl |-> TRUE, response |-> "",
     has_filter |-> FALSE, filter |-> NoFilter,
     has_value |-> FALSE, value |-> ""]

VarEnv ==
    [name |-> "env", friendly_name |-> "", query |-> "", modelattr |-> "",
     includeincmd |-> FALSE, includeinurl |-> FALSE, response |-> "prod",
     has_filter |-> FALSE, filter |-> NoFilter,
     has_value |-> FALSE, value |-> ""]

PanelCpu ==
    [command_name |-> "cpu", friendly_name |-> "CPU", panel_id |-> "1",
     variables |-> <<VarSite, VarDevice>>]

PanelMem ==
    [command_name |-> "mem", friendly_name |-> "Memory", panel_id |-> "2",
     variables |-> <<VarMetric, VarEnv>>]

Dashboards ==
    <<[dashboard_slug |-> "node", dashboard_uid |-> "uid1",
       panels |-> <<PanelCpu, PanelMem>>]>>

NoPanel == [command_name |-> "", friendly_name |-> "", panel_id |-> "", variables |-> << >>]

AllPanels == {Dashboards[d].panels[p] : d \in 1..Len(Dashboards), p \in {1, 2}}

\* the subcommands initialize_subcommands registers: get-{command_name}
SubcommandOf(panel) == "get-" \o panel.command_name

Subcommands == {SubcommandOf(p) : p \in AllPanels}

VarNames(panel) == {panel.variables[i].name : i \in 1..Len(panel.variables)}

\* the records of nautobot.dcim.models, in queryset order
Inventory ==
    [Site |-> <<[name |-> "s1"], [name |-> "s2"]>>,
     Device |-> <<[name |-> "rtr1", site |-> "s1"],
                  [name |-> "rtr2", site |-> "s1"],
                  [name |-> "sw1", site |-> "s2"]>>,
     Rack |-> << >>]

-----------------------------------------------------------------------------
(* Chat tokens.  A token is a word without whitespace:                     *)
(*   pos   a word that starts with no default parameter name               *)
(*   kv    "<param>=<val>"                                                 *)
(*   bare  "<param>"                                                       *)
(*   junk  "<param><other text>" that is not "<param>=..."                 *)

Pos(w) == [kind |-> "pos", name |-> "", val |-> w]
Kv(p, v) == [kind |-> "kv", name |-> p, val |-> v]
Bare(p) == [kind |-> "bare", name |-> p, val |-> ""]
Junk(p) == [kind |-> "junk", name |-> p, val |-> "x"]

Words == {"s1", "rtr1"}

FlagTokens ==
    {Kv("width", "0"), Junk("width"),
     Kv("height", "0"),
     Kv("theme", "blue"),
     Kv("timespan", "P1M"), Kv("timespan", "PT1H"), Kv("timespan", "bad")}

ParamIndex(p) == CHOOSE i \in 1..Len(default_params) : default_params[i] = p

\* what a user types: up to MaxArgs words, then up to MaxFlags flag tokens,
\* at most one per parameter, in the order of default_params
SeqsUpTo(S, n) == UNION {[1..k -> S] : k \in 0..n}

FlagSeqs ==
    {fs \in SeqsUpTo(FlagTokens, MaxFlags) :
        \A i \in 1..Len(fs) : \A j \in 1..Len(fs) :
            i < j => ParamIndex(fs[i].name) < ParamIndex(fs[j].name)}

UserInputs == {ps \o fs : ps \in {[i \in 1..Len(ws) |-> Pos(ws[i])] : ws \in SeqsUpTo(Words, MaxArgs)},
                          fs \in FlagSeqs}

-----------------------------------------------------------------------------
(* chat_parse_args: panel lookup, the "--" rewrite and argparse.           *)

\* the panel whose get-{command_name} is the current subcommand, with its
\* dashboard's slug; NoPanel when no dashboard has one
FindPanel(subcommand) ==
    IF \E d \in 1..Len(Dashboards) : \E p \in 1..Len(Dashboards[d].panels) :
           SubcommandOf(Dashboards[d].panels[p]) = subcommand
    THEN LET di == CHOOSE d \in 1..Len(Dashboards) :
                    \E p \in 1..Len(Dashboards[d].panels) :
                        SubcommandOf(Dashboards[d].panels[p]) = subcommand
             pi == CHOOSE p \in 1..Len(Dashboards[di].panels) :
                    SubcommandOf(Dashboards[di].panels[p]) = subcommand
         IN [panel |-> Dashboards[di].panels[pi], dashboard_slug |-> Dashboards[di].dashboard_slug]
    ELSE [panel |-> NoPanel, dashboard_slug |-> ""]

\* the names argparse declares as positionals: the chat-visible variables
VisibleNames(panel) ==
    LET vis == SelectSeq(panel.variables, LAMBDA v : v.includeincmd)
    IN [i \in 1..Len(vis) |-> vis[i].name]

\* the namespace argparse starts from: every positional at its configured
\* response (or ""), every option at the handler's current setting
ParserDefaults(panel, cfg) ==
    [n \in VarNames(panel) \cup DefaultParamSet |->
        IF n \in DefaultParamSet
        THEN CASE n = "width" -> IntV(cfg.width)
               [] n = "height" -> IntV(cfg.height)
               [] n = "theme" -> StrV(cfg.theme)
               [] n = "timespan" -> TdV(cfg.timespan)
               [] OTHER -> StrV(cfg.timezone)
        ELSE LET v == CHOOSE v \in {panel.variables[i] : i \in 1..Len(panel.variables)} : v.name = n
             IN StrV(v.response)]

\* the number of consecutive positional words of toks from index i on
RECURSIVE RunLen(_, _)
RunLen(toks, i) ==
    IF i > Len(toks) \/ toks[i].kind # "pos" THEN 0 ELSE 1 + RunLen(toks, i + 1)

Min(a, b) == IF a < b THEN a ELSE b

\* argparse.parse_args over the rewritten tokens.  st.ns is the namespace,
\* st.posDone says the positionals were consumed, st.extras that argparse met
\* an argument it does not recognise.  The first run of words consumes every
\* positional at once (each is nargs="?": those left without a word take
\* their default), so words after a later option are unrecognised.
RECURSIVE ParseWalk(_, _, _, _)
ParseWalk(toks, i, names, st) ==
    IF i > Len(toks) THEN st
    ELSE LET t == toks[i] IN
      CASE t.kind = "pos" ->
             IF ~st.posDone /\ Len(names) > 0
             THEN LET n == Min(RunLen(toks, i), Len(names))
                  IN ParseWalk(toks, i + n, names,
                        [st EXCEPT !.posDone = TRUE,
                                   !.ns = [a \in DOMAIN st.ns |->
                                             IF \E j \in 1..n : names[j] = a
                                             THEN StrV(toks[i + (CHOOSE j \in 1..n : names[j] = a) - 1].val)
                                             ELSE st.ns[a]]])
             ELSE ParseWalk(toks, i + 1, names, [st EXCEPT !.extras = TRUE])
        [] t.kind = "kv" ->
             ParseWalk(toks, i + 1, names, [st EXCEPT !.ns[t.name] = StrV(t.val)])
        [] t.kind = "bare" ->
             IF i < Len(toks) /\ toks[i + 1].kind = "pos"
             THEN ParseWalk(toks, i + 2, names, [st EXCEPT !.ns[t.name] = StrV(toks[i + 1].val)])
             ELSE ParseWalk(toks, i + 1, names, [st EXCEPT !.ns[t.name] = NoneV])
        [] OTHER ->
             ParseWalk(toks, i + 1, names, [st EXCEPT !.extras = TRUE])

\* chat_parse_args from line 123 on, with the panel lines 117-121 found.
\* exc = "NotFound": the function returned the single value
\* False; exc = "SystemExit": parser.error printed the usage and exited.
\* Hidden variables (includeincmd false) are no positionals: they keep their
\* response from ParserDefaults, as predefined_args gives it.
ParseFound(found, args, cfg) ==
    LET panel == found.panel
    IN IF panel = NoPanel
       THEN [exc |-> "NotFound", panel |-> NoPanel, parsed_args |-> << >>, dashboard_slug |-> ""]
       ELSE LET st == ParseWalk(args, 1, VisibleNames(panel),
                        [ns |-> ParserDefaults(panel, cfg), posDone |-> FALSE, extras |-> FALSE])
            IN IF st.extras
               THEN [exc |-> "SystemExit", panel |-> panel, parsed_args |-> << >>,
                     dashboard_slug |-> found.dashboard_slug]
               ELSE [exc |-> "none", panel |-> panel, parsed_args |-> st.ns,
                     dashboard_slug |-> found.dashboard_slug]

chat_parse_args(subcommand, args, cfg) == ParseFound(FindPanel(subcommand), args, cfg)

-----------------------------------------------------------------------------
(* Jinja templates and str().                                              *)

\* the expressions the templates of this model hold: {{ <var>.<attr> }}
TemplateRefs ==
    [tpl \in {"{{ site.name }}", "{{site.name}}"} |-> [var |-> "site", attr |-> "name"]]

\* Template(tpl).render(vv).  Text without an expression renders as itself.
\* An attribute of a name that is not in vv raises UndefinedError; an
\* attribute the value does not have renders as the empty string.
Render(tpl, vv) ==
    IF tpl \notin DOMAIN TemplateRefs THEN [exc |-> "none", s |-> tpl]
    ELSE LET ref == TemplateRefs[tpl] IN
         IF ref.var \notin DOMAIN vv THEN [exc |-> "UndefinedError", s |-> ""]
         ELSE LET val == vv[ref.var] IN
              IF val.t = "rec" /\ ref.attr \in DOMAIN val.r
              THEN [exc |-> "none", s |-> val.r[ref.attr]]
              ELSE [exc |-> "none", s |-> ""]

RecV(r) == [t |-> "rec", r |-> r]

\* str() of a validated variable: the word itself, or the repr of the
\* record's __dict__
StrOf(val) ==
    IF val.t = "str" THEN val.s
    ELSE IF "site" \in DOMAIN val.r
         THEN "{'name': '" \o val.r.name \o "', 'site': '" \o val.r.site \o "'}"
         ELSE "{'name': '" \o val.r.name \o "'}"

\* vv[name] = val on a dict held as a function
Bind(vv, name, val) == [n \in DOMAIN vv \cup {name} |-> IF n = name THEN val ELSE vv[n]]

-----------------------------------------------------------------------------
(* get_nautobot_objects and chat_validate_nautobot_args.                   *)

\* a variant without the check of modelattr
get_nautobot_objectsWrong(variable) ==
    IF variable.query \notin DOMAIN Inventory
    THEN [exc |-> "PanelError", objects |-> << >>]
    ELSE IF Len(Inventory[variable.query]) < 1
    THEN [exc |-> "PanelError", objects |-> << >>]
    ELSE [exc |-> "none", objects |-> Inventory[variable.query]]

\* get_nautobot_objects: the records of the class, or PanelError
get_nautobot_objects(variable) ==
    IF variable.query \notin DOMAIN Inventory
    THEN [exc |-> "PanelError", objects |-> << >>]
    ELSE IF variable.modelattr = ""
    THEN [exc |-> "PanelError", objects |-> << >>]
    ELSE IF Len(Inventory[variable.query]) < 1
    THEN [exc |-> "PanelError", objects |-> << >>]
    ELSE [exc |-> "none", objects |-> Inventory[variable.query]]

\* the dict the code filters with, before its templates are rendered: the
\* variable's own filter dict (a fresh {} when the document has none), with
\* the user's value stored under modelattr when that value is truthy
BuildFilter(variable, stored, parsed_args) ==
    LET base == IF variable.has_filter THEN stored ELSE NoFilter
    IN IF Truthy(parsed_args[variable.name])
       THEN Put(base, variable.modelattr, parsed_args[variable.name].s)
       ELSE base

\* the loop over _filter.keys(): every entry is replaced by its rendering, in
\* dict order; an exception leaves the later entries as they were
RECURSIVE RenderFilter(_, _, _)
RenderFilter(f, i, vv) ==
    IF i > Len(f) THEN [exc |-> "none", filter |-> f]
    ELSE LET r == Render(f[i].v, vv) IN
         IF r.exc # "none" THEN [exc |-> r.exc, filter |-> f]
         ELSE RenderFilter([f EXCEPT ![i].v = r.s], i + 1, vv)

\* objects.filter(**_filter): exact match on every entry
ApplyFilter(objects, f) ==
    SelectSeq(objects, LAMBDA o : \A i \in 1..Len(f) : o[f[i].k] = f[i].v)

\* filtered_objects.count() != 1
NeedsMenu(count) == count # 1

\* the (label, value) pairs of the menu
ChoicesOf(objs, attr) == [i \in 1..Len(objs) |-> [label |-> objs[i].name, value |-> objs[i][attr]]]

\* a variant that lists the filtered records even when there are none
MenuChoicesWrong(variable, filtered, objects) == ChoicesOf(filtered, variable.modelattr)

MenuChoices(variable, filtered, objects) ==
    IF Len(filtered) > 1
    THEN ChoicesOf(filtered, variable.modelattr)
    ELSE ChoicesOf(objects, variable.modelattr)

NoMenu == [shown |-> FALSE, variable |-> "", action_id |-> [subcommand |-> "", args |-> << >>],
           helper_text |-> "", choices |-> << >>]

\* lines 285-287: the value template is whatever variable["value"] holds now,
\* else str() of the validated variable; its rendering is written back to
\* variable["value"]
RenderValue(variable, st) ==
    LET name == variable.name
        tpl == IF st.value[name].has THEN st.value[name].s ELSE StrOf(st.vv[name])
        r == Render(tpl, st.vv)
    IN IF r.exc # "none" THEN [st EXCEPT !.exc = r.exc]
       ELSE [st EXCEPT !.value[name] = [has |-> TRUE, s |-> r.s],
                       !.written = @ \cup {name}]

\* lines 273-279: the menu is shown and MultipleOptionsError raised (getattr
\* of an attribute the records do not have raises AttributeError instead)
ShowMenu(variable, st, panel, action_id, objects, filtered) ==
    IF variable.modelattr \notin DOMAIN objects[1]
    THEN [st EXCEPT !.exc = "AttributeError"]
    ELSE [st EXCEPT !.exc = "MultipleOptionsError",
                    !.menu = [shown |-> TRUE, variable |-> variable.name,
                              action_id |-> action_id,
                              helper_text |->
                                IF variable.friendly_name # ""
                                THEN panel.friendly_name \o " Requires " \o variable.friendly_name
                                ELSE panel.friendly_name,
                              choices |-> MenuChoices(variable, filtered, objects)]]

\* lines 263-283: the count decides between the menu and the one record
CountObjects(variable, st, panel, action_id, objects, applied, filtered) ==
    IF NeedsMenu(Len(filtered))
    THEN ShowMenu(variable,
                  [st EXCEPT !.checks = Append(@, [variable |-> variable.name,
                        user |-> st.parsed_args[variable.name], applied |-> applied,
                        objects |-> objects, filtered |-> filtered, menu |-> TRUE])],
                  panel, action_id, objects, filtered)
    ELSE RenderValue(variable,
                  [st EXCEPT !.checks = Append(@, [variable |-> variable.name,
                        user |-> st.parsed_args[variable.name], applied |-> applied,
                        objects |-> objects, filtered |-> filtered, menu |-> FALSE]),
                             !.vv = Bind(st.vv, variable.name, RecV(filtered[1]))])

\* lines 252-261: the rendered entries are in the variable's own dict when
\* the document gave it one; a key that is no field of the model raises
\* FieldError, reported as PanelError
FilterObjects(variable, st, panel, action_id, objects, rendered) ==
    IF rendered.exc # "none"
    THEN [st EXCEPT !.exc = rendered.exc,
                    !.filter[variable.name] = IF variable.has_filter THEN rendered.filter ELSE @]
    ELSE IF ~(Keys(rendered.filter) \subseteq DOMAIN objects[1])
    THEN [st EXCEPT !.exc = "PanelError",
                    !.filter[variable.name] = IF variable.has_filter THEN rendered.filter ELSE @]
    ELSE CountObjects(variable,
                      [st EXCEPT !.filter[variable.name] =
                                    IF variable.has_filter THEN rendered.filter ELSE @],
                      panel, action_id, objects, rendered.filter,
                      ApplyFilter(objects, rendered.filter))

\* lines 241-255
ResolveQuery(variable, st, panel, action_id, got) ==
    IF got.exc # "none" THEN [st EXCEPT !.exc = got.exc]
    ELSE FilterObjects(variable, st, panel, action_id, got.objects,
             RenderFilter(BuildFilter(variable, st.filter[variable.name], st.parsed_args), 1, st.vv))

\* one pass of the loop body for one variable
ValidateVariable(variable, st, panel, action_id) ==
    IF variable.query = ""
    THEN RenderValue(variable,
             [st EXCEPT !.vv = Bind(st.vv, variable.name, st.parsed_args[variable.name])])
    ELSE ResolveQuery(variable, st, panel, action_id, get_nautobot_objects(variable))

RECURSIVE ValidateLoop(_, _, _, _)
ValidateLoop(panel, i, st, action_id) ==
    IF i > Len(panel.variables) \/ st.exc # "none" THEN st
    ELSE ValidateLoop(panel, i + 1, ValidateVariable(panel.variables[i], st, panel, action_id), action_id)

\* chat_validate_nautobot_args: value and filter are the slots of the panels
\* document, which the loop writes in place
chat_validate_nautobot_args(panel, parsed_args, action_id, value, filter) ==
    ValidateLoop(panel, 1,
        [vv |-> << >>, value |-> value, filter |-> filter, parsed_args |-> parsed_args,
         exc |-> "none", checks |-> << >>, menu |-> NoMenu, written |-> {}],
        action_id)

-----------------------------------------------------------------------------
(* GrafanaHandler: the settings and their validating setters.              *)

\* handler.now, the time the class was created: 1970-02-04 17:20:00.0005
now == Td(3000000, 1)

\* the default_timespan a deployment may configure: none, or one shorter
\* than a millisecond
ConfiguredTimespans == {ZeroTd, Td(0, 1)}

InitConfig(default_timespan) ==
    [width |-> 1000, height |-> 500, theme |-> "light", timespan |-> default_timespan,
     timezone |-> "UTC"]

\* int(): the strings pydantic coerces to an int
IntOfStr == ("0" :> 0) @@ ("800" :> 800)

\* isodate.parse_duration: a string with a year or month part gives a
\* Duration, any other duration string a datetime.timedelta (which has no
\* totimedelta); td is Duration.totimedelta(start=now), the 28 days from
\* 4 February to 4 March
DurationOf ==
    ("P1M" :> [type |-> "Duration", td |-> Td(2419200, 0)]) @@
    ("PT1H" :> [type |-> "timedelta", td |-> Td(3600, 0)])

\* GrafanaConfigSettings(...) on the one field that changes
PydanticField(param, v) ==
    CASE param \in {"width", "height"} ->
           IF v.t = "int" THEN [exc |-> "none", val |-> v.i]
           ELSE IF v.t = "str" /\ v.s \in DOMAIN IntOfStr THEN [exc |-> "none", val |-> IntOfStr[v.s]]
           ELSE [exc |-> "ValidationError", val |-> 0]
      [] param = "theme" ->
           IF v.t = "str" /\ v.s \in {"light", "dark"} THEN [exc |-> "none", val |-> v.s]
           ELSE [exc |-> "ValidationError", val |-> ""]
      [] param = "timespan" ->
           IF v.t = "td" THEN [exc |-> "none", val |-> v.d]
           ELSE [exc |-> "ValidationError", val |-> ZeroTd]
      [] OTHER ->
           IF v.t = "str" THEN [exc |-> "none", val |-> v.s]
           ELSE [exc |-> "ValidationError", val |-> ""]

\* the timespan setter's argument: a falsy value as it is, else
\* isodate.parse_duration(value).totimedelta(start=self.now)
TimespanArg(v) ==
    IF ~Truthy(v) THEN [exc |-> "none", val |-> v]
    ELSE IF v.t # "str" THEN [exc |-> "TypeError", val |-> v]
    ELSE IF v.s \notin DOMAIN DurationOf THEN [exc |-> "ISO8601Error", val |-> v]
    ELSE IF DurationOf[v.s].type # "Duration" THEN [exc |-> "AttributeError", val |-> v]
    ELSE [exc |-> "none", val |-> TdV(DurationOf[v.s].td)]

\* setattr(handler, param, v): the new config replaces the old one only when
\* the model validated
SetAttr(cfg, param, v) ==
    LET arg == IF param = "timespan" THEN TimespanArg(v) ELSE [exc |-> "none", val |-> v]
    IN IF arg.exc # "none" THEN [exc |-> arg.exc, cfg |-> cfg]
       ELSE LET f == PydanticField(param, arg.val)
            IN IF f.exc # "none" THEN [exc |-> f.exc, cfg |-> cfg]
               ELSE [exc |-> "none", cfg |-> [cfg EXCEPT ![param] = f.val]]

NoDefaultError == [param |-> "", value |-> NoneV]

\* a variant that restores the settings the pass started from
ConfigOnErrorWrong(before, reached) == before

\* what the handler's config is once a setter has raised: the settings the
\* earlier setters of the same pass stored (before is the config the pass
\* started from)
ConfigOnError(before, reached) == reached

\* chat_validate_default_args: exc is "none", "DefaultArgsError" (err says
\* for which parameter and value) or the exception the except clause does
\* not name
RECURSIVE ApplyDefaults(_, _, _, _)
ApplyDefaults(before, cfg, parsed_args, i) ==
    IF i > Len(default_params) THEN [exc |-> "none", cfg |-> cfg, err |-> NoDefaultError]
    ELSE LET param == default_params[i]
             r == SetAttr(cfg, param, parsed_args[param])
         IN IF r.exc = "none" THEN ApplyDefaults(before, r.cfg, parsed_args, i + 1)
            ELSE [exc |-> IF r.exc \in {"ValidationError", "ISO8601Error"}
                          THEN "DefaultArgsError" ELSE r.exc,
                  cfg |-> ConfigOnError(before, r.cfg),
                  err |-> [param |-> param, value |-> parsed_args[param]]]

chat_validate_default_args(cfg, parsed_args) == ApplyDefaults(cfg, cfg, parsed_args, 1)

-----------------------------------------------------------------------------
(* get_png_url and get_png.                                                *)

\* urllib.parse.quote with the default safe="/"
Quote(s) == IF s = "Etc/GMT+1" THEN "Etc/GMT%2B1" ELSE s

\* datetime - timedelta
TimeMinus(t, d) ==
    IF t.h >= d.h THEN Td(t.s - d.s, t.h - d.h) ELSE Td(t.s - d.s - 1, t.h + 2000 - d.h)

\* str(int(t.timestamp() * 1e3)) of a time a second or more after the
\* epoch: int() drops the half millisecond
Millis(t) ==
    LET ms == t.h \div 2
    IN ToString(t.s) \o (IF ms < 10 THEN "00" ELSE IF ms < 100 THEN "0" ELSE "") \o ToString(ms)

\* line 216: from and to are sent when their millisecond strings differ
IncludesWindow(from_time, to_time) == from_time # to_time

\* a variant that also sends a size of zero
IncludesSizeWrong(n) == n >= 0

\* lines 219-222
IncludesSize(n) == n > 0

\* line 225
IncludesVar(variable, value) ==
    variable.includeinurl /\ value[variable.name].has /\ value[variable.name].s # ""

\* the payload as the set of its (key, value) entries
get_png_url(cfg, dashboard_slug, panel, value) ==
    LET dashboard == CHOOSE d \in {Dashboards[i] : i \in 1..Len(Dashboards)} :
                        d.dashboard_slug = dashboard_slug
        from_time == Millis(TimeMinus(now, cfg.timespan))
        to_time == Millis(now)
        base == {<<"orgId", "1">>, <<"panelId", panel.panel_id>>,
                 <<"tz", Quote(cfg.timezone)>>, <<"theme", cfg.theme>>}
        window == IF IncludesWindow(from_time, to_time)
                  THEN {<<"from", from_time>>, <<"to", to_time>>} ELSE {}
        width == IF IncludesSize(cfg.width) THEN {<<"width", ToString(cfg.width)>>} ELSE {}
        height == IF IncludesSize(cfg.height) THEN {<<"height", ToString(cfg.height)>>} ELSE {}
        variables == {<<"var-" \o panel.variables[i].name, value[panel.variables[i].name].s>> :
                        i \in {j \in 1..Len(panel.variables) : IncludesVar(panel.variables[j], value)}}
    IN [url |-> "/render/d-solo/" \o dashboard.dashboard_uid \o "/" \o dashboard_slug,
        payload |-> base \cup window \cup width \cup height \cup variables]

\* what requests.get can end in: a response with a status and a body, or a
\* RequestException
FetchOutcomes == {"200", "200 empty body", "500", "RequestException"}

\* a variant that returns the body whatever the status
get_pngWrong(outcome) ==
    IF outcome = "RequestException"
    THEN [none |-> TRUE, content |-> ""]
    ELSE [none |-> FALSE, content |-> "png"]

\* get_png: the body of a 200 response, else None
get_png(outcome) ==
    CASE outcome = "200" -> [none |-> FALSE, content |-> "png"]
      [] outcome = "200 empty body" -> [none |-> FALSE, content |-> ""]
      [] OTHER -> [none |-> TRUE, content |-> ""]

-----------------------------------------------------------------------------
(* chat_return_panel and chat_get_panel.                                   *)

\* lines 204-205: the image's file name parses parsed_args["timespan"] again
FileNameExc(parsed_args) ==
    LET v == parsed_args["timespan"] IN
    IF ~Truthy(v) THEN "none"
    ELSE IF v.t # "str" THEN "TypeError"
    ELSE IF v.s \notin DOMAIN DurationOf THEN "ISO8601Error"
    ELSE IF DurationOf[v.s].type # "Duration" THEN "AttributeError"
    ELSE "none"

\* chat_return_panel: the dispatcher calls in order, the one render fetch,
\* and the boolean returned (or the exception raised)
chat_return_panel(cfg, panel, parsed_args, dashboard_slug, value, outcome) ==
    LET req == get_png_url(cfg, dashboard_slug, panel, value)
        raw_png == get_png(outcome)
        before == <<"send_markdown standby", "send_busy_indicator">>
    IN IF raw_png.none \/ raw_png.content = ""
       THEN [msgs |-> before \o <<"send_error grafana">>, fetches |-> <<outcome>>, request |-> req,
             result |-> "False", exc |-> "none"]
       ELSE IF FileNameExc(parsed_args) # "none"
       THEN [msgs |-> before \o <<"send_blocks">>, fetches |-> <<outcome>>, request |-> req,
             result |-> "raised", exc |-> FileNameExc(parsed_args)]
       ELSE [msgs |-> before \o <<"send_blocks", "send_image">>, fetches |-> <<outcome>>,
             request |-> req, result |-> "True", exc |-> "none"]

NoRequest == [url |-> "", payload |-> {}]

\* a variant without the except clause of lines 88-89
EndsInvocationWrong(exc) == exc = "PanelError"

\* lines 84-89: which exceptions of chat_validate_nautobot_args end the
\* invocation with return False
EndsInvocation(exc) == exc \in {"PanelError", "MultipleOptionsError"}

\* the record of an invocation that has parsed its arguments
Blank(subcommand, parsed) ==
    [subcommand |-> subcommand, panel |-> parsed.panel.command_name,
     parsed_args |-> parsed.parsed_args, result |-> "raised", exc |-> "none",
     msgs |-> << >>, fetches |-> << >>, request |-> NoRequest,
     menu |-> NoMenu, checks |-> << >>, written |-> {}, vv |-> << >>,
     resolved |-> FALSE, applied |-> FALSE, err |-> NoDefaultError]

\* what chat_validate_nautobot_args left behind
Seen(subcommand, parsed, v) ==
    [Blank(subcommand, parsed) EXCEPT !.checks = v.checks, !.written = v.written,
                                      !.vv = v.vv, !.menu = v.menu, !.exc = v.exc]

MenuMsgs(v) == IF v.menu.shown THEN <<"prompt_from_menu">> ELSE << >>

\* line 99
ReturnPanel(subcommand, parsed, v, d, r) ==
    [cfg |-> d.cfg, value |-> v.value, filter |-> v.filter,
     inv |-> [Seen(subcommand, parsed, v) EXCEPT
                !.resolved = (v.exc = "none"), !.applied = TRUE, !.err = d.err,
                !.result = r.result, !.exc = r.exc, !.msgs = MenuMsgs(v) \o r.msgs,
                !.fetches = r.fetches, !.request = r.request]]

\* lines 91-99
AfterDefaults(subcommand, parsed, v, d, outcome) ==
    IF d.exc = "DefaultArgsError"
    THEN [cfg |-> d.cfg, value |-> v.value, filter |-> v.filter,
          inv |-> [Seen(subcommand, parsed, v) EXCEPT
                     !.resolved = (v.exc = "none"), !.applied = TRUE, !.err = d.err,
                     !.exc = d.exc, !.result = "False",
                     !.msgs = MenuMsgs(v) \o <<"send_error default args">>]]
    ELSE IF d.exc # "none"
    THEN [cfg |-> d.cfg, value |-> v.value, filter |-> v.filter,
          inv |-> [Seen(subcommand, parsed, v) EXCEPT
                     !.resolved = (v.exc = "none"), !.applied = TRUE, !.err = d.err,
                     !.exc = d.exc, !.msgs = MenuMsgs(v)]]
    ELSE ReturnPanel(subcommand, parsed, v, d,
             chat_return_panel(d.cfg, parsed.panel, parsed.parsed_args,
                               parsed.dashboard_slug, v.value, outcome))

\* lines 75-93
AfterValidate(subcommand, parsed, cfg, v, outcome) ==
    IF v.exc # "none" /\ EndsInvocation(v.exc)
    THEN [cfg |-> cfg, value |-> v.value, filter |-> v.filter,
          inv |-> [Seen(subcommand, parsed, v) EXCEPT
                     !.result = "False",
                     !.msgs = IF v.exc = "PanelError"
                              THEN <<"send_error panel definition">>
                              ELSE <<"prompt_from_menu">>]]
    ELSE IF v.exc \notin {"none", "MultipleOptionsError", "PanelError"}
    THEN [cfg |-> cfg, value |-> v.value, filter |-> v.filter,
          inv |-> Seen(subcommand, parsed, v)]
    ELSE AfterDefaults(subcommand, parsed, v,
             chat_validate_default_args(cfg, parsed.parsed_args), outcome)

\* lines 71-82: unpacking the single False of an unknown command raises
\* TypeError; SystemExit passes through
AfterParse(subcommand, args, cfg, value, filter, outcome, parsed) ==
    IF parsed.exc = "NotFound"
    THEN [cfg |-> cfg, value |-> value, filter |-> filter,
          inv |-> [Blank(subcommand, parsed) EXCEPT !.exc = "TypeError",
                                                    !.msgs = <<"send_error not found">>]]
    ELSE IF parsed.exc = "SystemExit"
    THEN [cfg |-> cfg, value |-> value, filter |-> filter,
          inv |-> [Blank(subcommand, parsed) EXCEPT !.exc = "SystemExit"]]
    ELSE AfterValidate(subcommand, parsed, cfg,
             chat_validate_nautobot_args(parsed.panel, parsed.parsed_args,
                 [subcommand |-> subcommand, args |-> args], value, filter),
             outcome)

\* chat_get_panel, entered with handler.current_subcommand = subcommand.
\* The result holds the new settings and variable slots and the record of
\* the invocation.
chat_get_panel(subcommand, args, cfg, value, filter, outcome) ==
    AfterParse(subcommand, args, cfg, value, filter, outcome,
               chat_parse_args(subcommand, args, cfg))

-----------------------------------------------------------------------------
(* The state machine.                                                      *)

AllVariables == UNION {{p.variables[i] : i \in 1..Len(p.variables)} : p \in AllPanels}

AllVarNames == {v.name : v \in AllVariables}

VarByName(n) == CHOOSE v \in AllVariables : v.name = n

\* the slots of the panels document as loaded
LoadedValue == [n \in AllVarNames |-> [has |-> VarByName(n).has_value, s |-> VarByName(n).value]]

LoadedFilter == [n \in AllVarNames |-> VarByName(n).filter]

NoInvocation ==
    [subcommand |-> "", panel |-> "", parsed_args |-> << >>,
     result |-> "none", exc |-> "none", msgs |-> << >>, fetches |-> << >>,
     request |-> NoRequest, menu |-> NoMenu, checks |-> << >>, written |-> {},
     vv |-> << >>, resolved |-> FALSE, applied |-> FALSE, err |-> NoDefaultError]

\* no call of the argument parser yet
NoParse == [panel |-> "", args |-> << >>, out |-> [exc |-> "none", parsed_args |-> << >>]]

Init ==
    /\ config \in {InitConfig(d) : d \in ConfiguredTimespans}
    /\ current_subcommand = ""
    /\ var_value = LoadedValue
    /\ var_filter = LoadedFilter
    /\ invocations = 0
    /\ parse = NoParse
    /\ jobs = << >>
    /\ inv = [chosen |-> [by_menu |-> FALSE, variable |-> "", value |-> ""], run |-> NoInvocation]

NotChosen == [by_menu |-> FALSE, variable |-> "", value |-> ""]

Idle == [chosen |-> NotChosen, run |-> NoInvocation]

\* the job `grafana`: lines 27-29, then the worker chat_get_panel.  An
\* invocation that ends before its fetch meets no fetch outcome.
Run(subcommand, args, chosen) ==
    /\ invocations < MaxInvocations
    /\ \E outcome \in FetchOutcomes :
       \E r \in {chat_get_panel(subcommand, args, config, var_value, var_filter, outcome)} :
          /\ r.inv.fetches = << >> => outcome = "200"
          /\ invocations' = invocations + 1
          /\ current_subcommand' = subcommand
          /\ config' = r.cfg
          /\ var_value' = r.value
          /\ var_filter' = r.filter
          /\ inv' = [chosen |-> chosen, run |-> r.inv]
          /\ UNCHANGED <<parse, jobs>>

\* a user sends a chat command of a registered subcommand
grafana ==
    /\ inv = Idle
    /\ \E subcommand \in Subcommands : \E args \in UserInputs :
          Run(subcommand, args, NotChosen)

\* the job has returned: the dispatcher and the parsed arguments of the
\* invocation are gone, the handler and the panels document stay
job_finished ==
    /\ inv # Idle
    /\ inv' = Idle
    /\ UNCHANGED <<config, current_subcommand, var_value, var_filter, invocations, parse, jobs>>

\* the user picks an entry of the menu the last invocation showed: the chat
\* platform sends the menu's action_id followed by the entry's value as a
\* new command
menu_selection ==
    /\ inv.run.menu.shown
    /\ \E i \in 1..Len(inv.run.menu.choices) :
          Run(inv.run.menu.action_id.subcommand,
              Append(inv.run.menu.action_id.args, Pos(inv.run.menu.choices[i].value)),
              [by_menu |-> TRUE, variable |-> inv.run.menu.variable,
               value |-> inv.run.menu.choices[i].value])

Next == grafana \/ job_finished \/ menu_selection

Spec == Init /\ [][Next]_vars

-----------------------------------------------------------------------------
(* SpecParse: chat_parse_args on token sequences in any order, for panels  *)
(* without query variables.                                                *)

VarMount ==
    [name |-> "mount", friendly_name |-> "Mount", query |-> "", modelattr |-> "",
     includeincmd |-> TRUE, includeinurl |-> TRUE, response |-> "all",
     has_filter |-> FALSE, filter |-> NoFilter,
     has_value |-> FALSE, value |-> ""]

VarUnit ==
    [name |-> "unit", friendly_name |-> "", query |-> "", modelattr |-> "",
     includeincmd |-> TRUE, includeinurl |-> TRUE, response |-> "",
     has_filter |-> FALSE, filter |-> NoFilter,
     has_value |-> FALSE, value |-> ""]

\* a panel of another panels document: a hidden variable is declared
\* between two chat-visible ones
PanelDisk ==
    [command_name |-> "disk", friendly_name |-> "Disk", panel_id |-> "3",
     variables |-> <<VarMount, VarEnv, VarUnit>>]

ParsePanels == {PanelMem, PanelDisk}

ParseTokens == {Pos("a"), Pos("b"), Kv("width", "0"), Kv("theme", "dark")}

\* the job `grafana` for one of the panels, up to the return of
\* chat_parse_args
parse_args ==
    \E panel \in ParsePanels : \E args \in SeqsUpTo(ParseTokens, MaxTokens) :
        /\ parse' = [panel |-> panel.command_name, args |-> args,
                     out |-> ParseFound([panel |-> panel, dashboard_slug |-> "node"], args, config)]
        /\ UNCHANGED <<config, current_subcommand, var_value, var_filter, inv, invocations, jobs>>

NextParse == parse_args

SpecParse == Init /\ [][NextParse]_vars

-----------------------------------------------------------------------------
(* SpecJobs: two jobs `grafana` on the one handler of a process that runs  *)
(* them concurrently.  A step is one call of chat_get_panel's body; two    *)
(* jobs of the same subcommand are never in flight together.               *)

JobIds == {1, 2}

\* what the users of the two jobs type: words, then width=0 or nothing
JobArgs ==
    {ps \o fs : ps \in {[i \in 1..Len(ws) |-> Pos(ws[i])] : ws \in SeqsUpTo(Words, MaxArgs)},
                fs \in {<< >>, <<Kv("width", "0")>>}}

\* a job that has not been started
IdleJob ==
    [pc |-> "idle", subcommand |-> "", args |-> << >>, panel |-> NoPanel,
     parsed_args |-> << >>, dashboard_slug |-> "", applied |-> InitConfig(ZeroTd),
     built_with |-> InitConfig(ZeroTd), request |-> NoRequest, result |-> "none", exc |-> "none"]

InFlight(j) == jobs[j].pc \notin {"idle", "done"}

InitJobs ==
    /\ config \in {InitConfig(d) : d \in ConfiguredTimespans}
    /\ current_subcommand = ""
    /\ var_value = LoadedValue
    /\ var_filter = LoadedFilter
    /\ invocations = 0
    /\ inv = Idle
    /\ parse = NoParse
    /\ jobs = [j \in JobIds |-> IdleJob]

\* lines 27-29: the job stores its subcommand in the handler and calls the
\* worker with the user's tokens
job_start(j) ==
    /\ jobs[j].pc = "idle"
    /\ \E subcommand \in Subcommands : \E args \in JobArgs :
          /\ \A k \in JobIds : InFlight(k) => jobs[k].subcommand # subcommand
          /\ current_subcommand' = subcommand
          /\ jobs' = [jobs EXCEPT ![j] = [IdleJob EXCEPT !.pc = "started",
                                                         !.subcommand = subcommand,
                                                         !.args = args]]
    /\ UNCHANGED <<config, var_value, var_filter, inv, invocations, parse>>

\* lines 71-73: chat_parse_args looks the panel up by the subcommand the
\* handler holds now and takes the defaults from the handler's settings
job_parse(j) ==
    /\ jobs[j].pc = "started"
    /\ \E r \in {chat_parse_args(current_subcommand, jobs[j].args, config)} :
          jobs' = [jobs EXCEPT ![j] =
                     IF r.exc # "none"
                     THEN [@ EXCEPT !.pc = "done", !.result = "raised", !.exc = r.exc]
                     ELSE [@ EXCEPT !.pc = "parsed", !.panel = r.panel,
                                    !.parsed_args = r.parsed_args,
                                    !.dashboard_slug = r.dashboard_slug]]
    /\ UNCHANGED <<config, current_subcommand, var_value, var_filter, inv, invocations, parse>>

\* lines 75-89: chat_validate_nautobot_args writes the slots of the panel's
\* variables
job_validate(j) ==
    /\ jobs[j].pc = "parsed"
    /\ \E v \in {chat_validate_nautobot_args(jobs[j].panel, jobs[j].parsed_args,
                       [subcommand |-> current_subcommand, args |-> jobs[j].args],
                       var_value, var_filter)} :
          /\ var_value' = v.value
          /\ var_filter' = v.filter
          /\ jobs' = [jobs EXCEPT ![j] =
                        IF v.exc = "none" THEN [@ EXCEPT !.pc = "validated"]
                        ELSE [@ EXCEPT !.pc = "done", !.exc = v.exc,
                                       !.result = IF EndsInvocation(v.exc)
                                                  THEN "False" ELSE "raised"]]
    /\ UNCHANGED <<config, current_subcommand, inv, invocations, parse>>

\* lines 91-97: chat_validate_default_args stores the job's five settings
\* in the handler
job_defaults(j) ==
    /\ jobs[j].pc = "validated"
    /\ \E d \in {chat_validate_default_args(config, jobs[j].parsed_args)} :
          /\ config' = d.cfg
          /\ jobs' = [jobs EXCEPT ![j] =
                        IF d.exc = "none" THEN [@ EXCEPT !.pc = "applied", !.applied = d.cfg]
                        ELSE [@ EXCEPT !.pc = "done", !.exc = d.exc,
                                       !.result = IF d.exc = "DefaultArgsError"
                                                  THEN "False" ELSE "raised"]]
    /\ UNCHANGED <<current_subcommand, var_value, var_filter, inv, invocations, parse>>

\* line 99: chat_return_panel builds the request from the handler's
\* settings and the variables' slots as they are now, and fetches
job_return(j) ==
    /\ jobs[j].pc = "applied"
    /\ \E outcome \in FetchOutcomes :
       \E r \in {chat_return_panel(config, jobs[j].panel, jobs[j].parsed_args,
                                   jobs[j].dashboard_slug, var_value, outcome)} :
          jobs' = [jobs EXCEPT ![j] = [@ EXCEPT !.pc = "done", !.built_with = config,
                                                !.request = r.request,
                                                !.result = r.result, !.exc = r.exc]]
    /\ UNCHANGED <<config, current_subcommand, var_value, var_filter, inv, invocations, parse>>

NextJobs ==
    \E j \in JobIds :
        job_start(j) \/ job_parse(j) \/ job_validate(j) \/ job_defaults(j) \/ job_return(j)

SpecJobs == InitJobs /\ [][NextJobs]_vars

-----------------------------------------------------------------------------
(* SpecMisconfigured: the job `grafana` on a panels document whose panels  *)
(* each declare one query variable that cannot be resolved.                *)

\* query names no class of dcim.models
VarCable ==
    [name |-> "cable", friendly_name |-> "Cable", query |-> "Cable", modelattr |-> "name",
     includeincmd |-> TRUE, includeinurl |-> TRUE, response |-> "",
     has_filter |-> FALSE, filter |-> NoFilter,
     has_value |-> FALSE, value |-> ""]

\* no modelattr
VarPlain ==
    [name |-> "plain", friendly_name |-> "", query |-> "Device", modelattr |-> "",
     includeincmd |-> TRUE, includeinurl |-> TRUE, response |-> "",
     has_filter |-> FALSE, filter |-> NoFilter,
     has_value |-> FALSE, value |-> ""]

\* the inventory has no rack
VarRack ==
    [name |-> "rack", friendly_name |-> "Rack", query |-> "Rack", modelattr |-> "name",
     includeincmd |-> TRUE, includeinurl |-> TRUE, response |-> "",
     has_filter |-> FALSE, filter |-> NoFilter,
     has_value |-> FALSE, value |-> ""]

\* the filter names colour, which is no field of Device
VarPainted ==
    [name |-> "painted", friendly_name |-> "", query |-> "Device", modelattr |-> "name",
     includeincmd |-> TRUE, includeinurl |-> TRUE, response |-> "",
     has_filter |-> TRUE, filter |-> <<[k |-> "colour", v |-> "red"]>>,
     has_value |-> FALSE, value |-> ""]

\* the panels of the document: the variable is the only one, or follows
\* the site
MisconfiguredPanels ==
    {[command_name |-> "cable", friendly_name |-> "Cables", panel_id |-> "4",
      variables |-> <<VarSite, VarCable>>],
     [command_name |-> "plain", friendly_name |-> "Plain", panel_id |-> "5",
      variables |-> <<VarPlain>>],
     [command_name |-> "rack", friendly_name |-> "Racks", panel_id |-> "6",
      variables |-> <<VarSite, VarRack>>],
     [command_name |-> "painted", friendly_name |-> "Painted", panel_id |-> "7",
      variables |-> <<VarPainted>>]}

MisconfiguredVariables ==
    UNION {{p.variables[i] : i \in 1..Len(p.variables)} : p \in MisconfiguredPanels}

InitMisconfigured ==
    /\ config \in {InitConfig(d) : d \in ConfiguredTimespans}
    /\ current_subcommand = ""
    /\ var_value = [n \in {v.name : v \in MisconfiguredVariables} |->
                      LET v == CHOOSE v \in MisconfiguredVariables : v.name = n
                      IN [has |-> v.has_value, s |-> v.value]]
    /\ var_filter = [n \in {v.name : v \in MisconfiguredVariables} |->
                       (CHOOSE v \in MisconfiguredVariables : v.name = n).filter]
    /\ invocations = 0
    /\ inv = Idle
    /\ parse = NoParse
    /\ jobs = << >>

\* the job `grafana` for a panel of this document: lines 27-29, then the
\* worker chat_get_panel
grafana_misconfigured ==
    /\ inv = Idle
    /\ invocations < MaxInvocations
    /\ \E panel \in MisconfiguredPanels : \E args \in UserInputs : \E outcome \in FetchOutcomes :
       \E r \in {AfterParse(SubcommandOf(panel), args, config, var_value, var_filter, outcome,
                     ParseFound([panel |-> panel, dashboard_slug |-> Dashboards[1].dashboard_slug],
                                args, config))} :
          /\ r.inv.fetches = << >> => outcome = "200"
          /\ invocations' = invocations + 1
          /\ current_subcommand' = SubcommandOf(panel)
          /\ config' = r.cfg
          /\ var_value' = r.value
          /\ var_filter' = r.filter
          /\ inv' = [chosen |-> NotChosen, run |-> r.inv]
          /\ UNCHANGED <<parse, jobs>>

NextMisconfigured == grafana_misconfigured \/ job_finished

SpecMisconfigured == InitMisconfigured /\ [][NextMisconfigured]_vars

-----------------------------------------------------------------------------
(* Properties.                                                             *)

run == inv.run

PanelOf(command_name) == CHOOSE p \in AllPanels : p.command_name = command_name

IndexOf(panel, name) == CHOOSE i \in 1..Len(panel.variables) : panel.variables[i].name = name

Sent(msg) == \E i \in 1..Len(run.msgs) : run.msgs[i] = msg

\* C1: for every query variable whose objects were filtered, no menu is
\* shown when exactly one record matched, and otherwise the menu is shown for
\* that variable with the matching records as its candidates, or with every
\* record of the entity type when none matched.
C1_MenuIffNotExactlyOne ==
    \A i \in 1..Len(run.checks) :
        LET c == run.checks[i]
            attr == VarByName(c.variable).modelattr
        IN IF Len(c.filtered) = 1
           THEN ~(run.menu.shown /\ run.menu.variable = c.variable)
           ELSE /\ run.menu.shown
                /\ run.menu.variable = c.variable
                /\ Sent("prompt_from_menu")
                /\ run.menu.choices =
                     ChoicesOf(IF Len(c.filtered) > 0 THEN c.filtered ELSE c.objects, attr)

\* an invocation in which one variable matched exactly one record and the
\* next matched none, so that its menu lists all three devices
C1_Witness ==
    /\ Len(run.checks) = 2
    /\ Len(run.checks[1].filtered) = 1
    /\ Len(run.checks[2].filtered) = 0
    /\ run.menu.shown /\ run.menu.variable = "device"
    /\ Len(run.menu.choices) = 3

\* C2: an invocation that shows a menu writes the value slot of no variable
\* declared after the menu's variable, leaves the settings as they were
\* (default-argument validation does not run) and performs no render fetch.
C2_MenuEndsInvocation ==
    [][inv'.run.menu.shown =>
         /\ \A j \in 1..Len(PanelOf(inv'.run.panel).variables) :
               j > IndexOf(PanelOf(inv'.run.panel), inv'.run.menu.variable) =>
                  /\ var_value'[PanelOf(inv'.run.panel).variables[j].name]
                       = var_value[PanelOf(inv'.run.panel).variables[j].name]
                  /\ PanelOf(inv'.run.panel).variables[j].name \notin inv'.run.written
         /\ config' = config
         /\ ~inv'.run.applied
         /\ inv'.run.fetches = << >>
         /\ inv'.run.result = "False"
         /\ inv'.run.msgs = <<"prompt_from_menu">>]_vars

\* a menu for the first variable of a panel, in an invocation whose width
\* flag would have changed the settings
C2_Witness ==
    /\ run.menu.shown /\ run.menu.variable = "site"
    /\ run.parsed_args["width"] = StrV("0")
    /\ config.width # 0

\* C3: after an invocation that resolved its variables, the value of every
\* variable of the panel is the configured value template (else str() of the
\* validated variable) rendered against that invocation's validated
\* variables.
C3_ValueFromConfiguredTemplate ==
    run.resolved =>
        \A i \in 1..Len(PanelOf(run.panel).variables) :
            LET v == PanelOf(run.panel).variables[i]
            IN var_value[v.name].s =
                 Render(IF v.has_value THEN v.value ELSE StrOf(run.vv[v.name]), run.vv).s

\* C4: the filter dict of every variable is always the one the document was
\* loaded with.
C4_FilterAsLoaded == var_filter = LoadedFilter

\* C5: the filter applied for a query variable holds the user's value under
\* modelattr when that value is non-empty, and otherwise the entry the
\* document configures for modelattr, or none.
C5_FilterEntryForModelAttr ==
    \A i \in 1..Len(run.checks) :
        LET c == run.checks[i]
            v == VarByName(c.variable)
        IN IF Truthy(c.user)
           THEN HasKey(c.applied, v.modelattr) /\ Get(c.applied, v.modelattr) = c.user.s
           ELSE IF HasKey(v.filter, v.modelattr)
                THEN HasKey(c.applied, v.modelattr)
                       /\ Get(c.applied, v.modelattr) = Get(v.filter, v.modelattr)
                ELSE ~HasKey(c.applied, v.modelattr)

\* C6: a pass of chat_validate_default_args takes the parameters in the
\* order width, height, theme, timespan, timezone.  Every parameter before
\* the first one whose setter raises holds its new value afterwards, that
\* parameter and every later one hold the value they had before the pass, the
\* error names that parameter's argument, and an argument the settings model
\* or the duration parser rejects gives DefaultArgsError.
C6_DefaultsInOrderNoRollback ==
    [][inv'.run.applied =>
         LET pa == inv'.run.parsed_args
             err == inv'.run.err
             order == <<"width", "height", "theme", "timespan", "timezone">>
             k == IF err.param = "" THEN 6
                  ELSE CHOOSE j \in 1..5 : order[j] = err.param
             new(p) == CASE pa[p].t = "int" -> pa[p].i
                         [] pa[p].t = "td" -> pa[p].d
                         [] p \in {"width", "height"} -> IntOfStr[pa[p].s]
                         [] p = "timespan" -> DurationOf[pa[p].s].td
                         [] OTHER -> pa[p].s
             rejected(p) == \/ p = "theme" /\ pa[p] \notin {StrV("light"), StrV("dark")}
                            \/ p = "timespan" /\ pa[p].t = "str" /\ pa[p].s \notin DOMAIN DurationOf
                            \/ p \in {"width", "height"} /\ pa[p].t = "str"
                                 /\ pa[p].s \notin DOMAIN IntOfStr
         IN /\ default_params = order
            /\ \A j \in 1..5 :
                  /\ j < k => ~rejected(order[j]) /\ config'[order[j]] = new(order[j])
                  /\ j >= k => config'[order[j]] = config[order[j]]
            /\ k <= 5 => /\ err.value = pa[order[k]]
                         /\ inv'.run.fetches = << >>
                         /\ inv'.run.result # "True"
            /\ (k <= 5 /\ rejected(order[k])) =>
                  /\ inv'.run.exc = "DefaultArgsError"
                  /\ inv'.run.result = "False"
            /\ inv'.run.exc = "DefaultArgsError" => k <= 5 /\ rejected(order[k])]_vars

\* width=0 theme=blue: the theme is refused after the width was stored
C6_Witness ==
    /\ run.applied
    /\ run.exc = "DefaultArgsError"
    /\ run.err = [param |-> "theme", value |-> StrV("blue")]
    /\ run.parsed_args["width"] = StrV("0")
    /\ config.width = 0
    /\ config.theme = "light"

\* C7: every invocation ends by returning True or False, none by an
\* exception that leaves chat_get_panel, and one that returns False has sent
\* the user a message.
C7_NoExceptionEscapes ==
    /\ run.result # "raised"
    /\ run.result = "False" => run.msgs # << >>

\* C8: an invocation started from a menu selection parses its tokens, has
\* the chosen value as the argument of the menu's variable, and filters
\* the variable's objects by it.
C8_ChosenValueSubstituted ==
    inv.chosen.by_menu =>
        /\ run.exc # "SystemExit"
        /\ run.parsed_args[inv.chosen.variable] = StrV(inv.chosen.value)
        /\ \E i \in 1..Len(run.checks) :
              /\ run.checks[i].variable = inv.chosen.variable
              /\ run.checks[i].user = StrV(inv.chosen.value)

\* C9: the payload of a render request has from and to exactly when the
\* timespan setting is not zero, width (height) exactly when the setting is
\* positive, and var-<name> exactly for the variables of the panel that are
\* not excluded from the URL and hold a non-empty value, with that value; the
\* request is the one the settings, panel and values of the state give.
C9_PayloadKeys ==
    run.fetches # << >> =>
        LET payload == run.request.payload
            keys == {e[1] : e \in payload}
            panel == PanelOf(run.panel)
        IN /\ "from" \in keys <=> config.timespan # ZeroTd
           /\ "to" \in keys <=> config.timespan # ZeroTd
           /\ "width" \in keys <=> config.width > 0
           /\ "height" \in keys <=> config.height > 0
           /\ <<"width", ToString(config.width)>> \in payload <=> config.width > 0
           /\ \A i \in 1..Len(panel.variables) :
                 LET v == panel.variables[i]
                 IN /\ ("var-" \o v.name) \in keys
                         <=> (v.includeinurl /\ var_value[v.name].s # "")
                    /\ ("var-" \o v.name) \in keys
                         => <<"var-" \o v.name, var_value[v.name].s>> \in payload
           /\ \A e \in payload : \A f \in payload : e[1] = f[1] => e = f
           /\ run.request = get_png_url(config, Dashboards[1].dashboard_slug, panel, var_value)

\* a request with a zero width, a month's timespan, one variable whose value
\* is empty and one that is kept out of the URL
C9_Witness ==
    /\ run.fetches # << >>
    /\ run.panel = "mem"
    /\ config.width = 0
    /\ config.height > 0
    /\ config.timespan # ZeroTd
    /\ var_value["metric"].s = ""
    /\ var_value["env"].s # ""

C11_WordsToVisibleInOrder ==
    parse.panel # "" =>
        LET panel == CHOOSE p \in ParsePanels : p.command_name = parse.panel
            words == SelectSeq(parse.args, LAMBDA t : t.kind = "pos")
            declared == SelectSeq(panel.variables, LAMBDA v : v.includeincmd)
            hidden == SelectSeq(panel.variables, LAMBDA v : ~v.includeincmd)
        IN Len(words) <= Len(declared) =>
              /\ parse.out.exc = "none"
              /\ \A j \in 1..Len(declared) :
                    parse.out.parsed_args[declared[j].name] =
                       IF j <= Len(words) THEN StrV(words[j].val)
                       ELSE StrV(declared[j].response)
              /\ \A j \in 1..Len(hidden) :
                    parse.out.parsed_args[hidden[j].name] = StrV(hidden[j].response)

\* C12: a job that built a render request built it for the panel of its
\* own subcommand and with the five display settings it stored itself.
C12_RequestOfOwnInvocation ==
    \A j \in JobIds :
        jobs[j].request # NoRequest =>
            /\ SubcommandOf(jobs[j].panel) = jobs[j].subcommand
            /\ jobs[j].built_with = jobs[j].applied

\* C13: when chat_validate_nautobot_args comes to a query variable whose
\* class is unknown, that has no modelattr, whose class has no record or
\* whose filter names a key that is no field of the records (every variable
\* declared before it has been resolved), the invocation sends the panel
\* definition error and returns False, shows no menu, leaves the settings as
\* they were and fetches nothing.
C13_PanelErrorAborts ==
    [][LET r == inv'.run
           panel == CHOOSE p \in MisconfiguredPanels : p.command_name = r.panel
           v == panel.variables[Len(panel.variables)]
           unresolvable ==
              \/ v.query \notin {"Site", "Device", "Rack"}
              \/ v.modelattr = ""
              \/ v.query = "Rack"
              \/ \E i \in 1..Len(v.filter) : v.filter[i].k \notin {"name", "site"}
       IN (/\ r.panel \in {p.command_name : p \in MisconfiguredPanels}
           /\ r.exc # "SystemExit"
           /\ \A i \in 1..(Len(panel.variables) - 1) : panel.variables[i].name \in r.written
           /\ unresolvable)
          => /\ r.exc = "PanelError"
             /\ r.result = "False"
             /\ r.msgs = <<"send_error panel definition">>
             /\ ~r.menu.shown
             /\ ~r.applied
             /\ config' = config
             /\ r.fetches = << >>]_vars

\* the class of the second variable is unknown; the site before it was
\* resolved, and the width the user asked for is not stored
C13_Witness ==
    /\ run.panel = "cable"
    /\ "site" \in run.written
    /\ run.exc = "PanelError"
    /\ run.parsed_args["width"] = StrV("0")
    /\ config.width # 0

====
